---- MODULE Spec2Model ----
(***************************************************************************)
(* bdk-cli-tutorial: one invocation of the four-verb descriptor wallet     *)
(* (src/main.rs).  A behaviour is one run of the process: main calls       *)
(* parse_args, then execute, which creates and syncs an ephemeral wallet   *)
(* and runs the verb.  Every call that returns a Result is a step that the *)
(* environment may fail.                                                   *)
(***************************************************************************)
EXTENDS Integers, Sequences, FiniteSets, TLC

VARIABLES
    argv,       \* the command line after the program name
    pc,         \* position of the run in main / create_wallet / execute
    mode,       \* <<>> or <<Mode>>: what parse_args returned
    failed,     \* <<>> or <<step>>: the step whose Result was Err
    trace,      \* the steps executed so far, in order
    diag,       \* lines written to stderr by main
    exitCode,   \* <<>> while running, <<status>> after the process ended
    chain,      \* the chain source's state: [utxos, hist]
    net,        \* calls made to the chain source, in order
    wallet,     \* "none" | "created" | "synced" | "dropped"
    queue,      \* scripts the sync pass has still to query
    utxos,      \* the wallet database's UTXO set
    out,        \* what the verb printed on stdout (a record per verb)
    work        \* the verb's locals: dest script, bytes, psbt, tx

vars == <<argv, pc, mode, failed, trace, diag, exitCode, chain, net, wallet,
          queue, utxos, out, work>>

----------------------------------------------------------------------------
(* Bounds *)

\* Scripts of each keychain that the sync pass queries: indices 0..MaxIndex.
MaxIndex == 1

----------------------------------------------------------------------------
(* Command-line tokens *)

Verbs == {"balance", "receive", "send", "broadcast"}
Flags == {"--change", "--index", "--amount", "--dest", "--psbt"}

\* Tokens that parse as unsigned integers, and their values.
NumTokens == {"0", "1", "2", "3", "7", "12", "30"}
TokNum(t) ==
    CASE t = "0" -> 0 [] t = "1" -> 1 [] t = "2" -> 2 [] t = "3" -> 3
      [] t = "7" -> 7 [] t = "12" -> 12 [] t = "30" -> 30

\* pico_args treats an argument that starts with '-' as no subcommand.
StartsWithDash(t) == t \in Flags

Some(v) == <<v>>
None == <<>>
IsSome(o) == Len(o) = 1
Get(o) == o[1]

Ok(v) == [ok |-> TRUE, val |-> v]
Err(e) == [ok |-> FALSE, val |-> e]

RECURSIVE IndexFrom(_, _, _)
IndexFrom(args, key, i) ==
    IF i > Len(args) THEN 0
    ELSE IF args[i] = key THEN i
    ELSE IndexFrom(args, key, i + 1)

\* Position of the first argument equal to key, 0 when there is none.
index_of(args, key) == IndexFrom(args, key, 1)

RemoveAt(args, i) == SubSeq(args, 1, i - 1) \o SubSeq(args, i + 1, Len(args))

\* Arguments::subcommand: the first argument, unless it starts with '-'.
subcommand(args) ==
    IF Len(args) = 0 \/ StartsWithDash(args[1])
    THEN [sub |-> None, rest |-> args]
    ELSE [sub |-> Some(args[1]), rest |-> Tail(args)]

\* Arguments::free_from_str::<String>: takes the first remaining argument,
\* whatever it is; an error when none remains.
free_from_str(args) ==
    IF Len(args) = 0 THEN [ok |-> FALSE, val |-> "", rest |-> args]
    ELSE [ok |-> TRUE, val |-> args[1], rest |-> Tail(args)]

\* Arguments::value_from_str(key) for a String: the argument after the first
\* occurrence of key; both are removed.  An error when key is absent or last.
value_from_str(args, key) ==
    LET i == index_of(args, key) IN
    IF i = 0 \/ i + 1 > Len(args) THEN [ok |-> FALSE, val |-> "", rest |-> args]
    ELSE [ok |-> TRUE, val |-> args[i + 1],
          rest |-> RemoveAt(RemoveAt(args, i), i)]

\* value_from_str(key) for u32 / u64: as above, and the value must parse as a
\* number; nothing is removed when it does not.
value_from_num(args, key) ==
    LET r == value_from_str(args, key) IN
    IF r.ok /\ r.val \notin NumTokens
    THEN [ok |-> FALSE, val |-> "", rest |-> args]
    ELSE r

BalanceMode(d, c) == [kind |-> "balance", descriptor |-> d, change_descriptor |-> c]
ReceiveMode(d, i) == [kind |-> "receive", descriptor |-> d, index |-> i]
SendMode(d, c, a, t) ==
    [kind |-> "send", descriptor |-> d, change_descriptor |-> c,
     amount |-> a, destination |-> t]
BroadcastMode(d, p) == [kind |-> "broadcast", descriptor |-> d, psbt |-> p]

\* parse_args: Ok(Mode) or Err(message).
parse_args(args) ==
    LET s == subcommand(args) IN
    IF ~IsSome(s.sub) THEN Err("Need to pick a mode")
    ELSE
    LET d == free_from_str(s.rest) IN
    IF ~d.ok THEN Err("Need to include a descriptor")
    ELSE
    LET verb == Get(s.sub) IN
    CASE verb = "balance" ->
           LET c == value_from_str(d.rest, "--change") IN
           IF c.ok THEN Ok(BalanceMode(d.val, c.val))
           ELSE Err("Missing change descriptor")
      [] verb = "receive" ->
           LET i == value_from_num(d.rest, "--index") IN
           IF i.ok THEN Ok(ReceiveMode(d.val, TokNum(i.val)))
           ELSE Err("Missing index argument")
      [] verb = "send" ->
           LET c == value_from_str(d.rest, "--change") IN
           IF ~c.ok THEN Err("Missing change descriptor")
           ELSE
           LET a == value_from_num(c.rest, "--amount") IN
           IF ~a.ok THEN Err("Missing amount")
           ELSE
           LET t == value_from_str(a.rest, "--dest") IN
           IF t.ok THEN Ok(SendMode(d.val, c.val, TokNum(a.val), t.val))
           ELSE Err("Missing destination address")
      [] verb = "broadcast" ->
           LET p == value_from_str(d.rest, "--psbt") IN
           IF p.ok THEN Ok(BroadcastMode(d.val, p.val))
           ELSE Err("Missing PSBT")
      [] OTHER -> Err("Unknown mode")

----------------------------------------------------------------------------
(* Text and binary formats: descriptors, addresses, base64, PSBT *)

\* Descriptor strings that parse (Wallet::new, Descriptor::from_str).
ValidDescriptor(t) == t \in {"wpkh(A)", "wpkh(B)"}

\* Address strings that parse (Address::from_str).
ValidAddress(t) == t = "tb1qdest"

\* Descriptor::derive / the address of a descriptor at an index.
derive(desc, index) == [desc |-> desc, index |-> index]

\* The base64 alphabet is the sextets 0..63; Pad stands for '=' and any
\* larger symbol for a character outside the alphabet.
Pad == 64

RECURSIVE base64_encode(_)
base64_encode(b) ==
    IF Len(b) = 0 THEN <<>>
    ELSE IF Len(b) = 1 THEN
        <<b[1] \div 4, (b[1] % 4) * 16, Pad, Pad>>
    ELSE IF Len(b) = 2 THEN
        <<b[1] \div 4, (b[1] % 4) * 16 + b[2] \div 16, (b[2] % 16) * 4, Pad>>
    ELSE
        <<b[1] \div 4, (b[1] % 4) * 16 + b[2] \div 16,
          (b[2] % 16) * 4 + b[3] \div 64, b[3] % 64>>
        \o base64_encode(SubSeq(b, 4, Len(b)))

IsSextet(c) == c \in 0..63

\* One group of four symbols to bytes; <<>> marks an invalid group.  Padding
\* is legal only in the last group, and the bits it cuts must be zero.
DecodeGroup(g, last) ==
    IF IsSextet(g[1]) /\ IsSextet(g[2]) /\ IsSextet(g[3]) /\ IsSextet(g[4]) THEN
        <<<<g[1] * 4 + g[2] \div 16, (g[2] % 16) * 16 + g[3] \div 4,
            (g[3] % 4) * 64 + g[4]>>>>
    ELSE IF last /\ IsSextet(g[1]) /\ IsSextet(g[2]) /\ IsSextet(g[3])
            /\ g[4] = Pad /\ g[3] % 4 = 0 THEN
        <<<<g[1] * 4 + g[2] \div 16, (g[2] % 16) * 16 + g[3] \div 4>>>>
    ELSE IF last /\ IsSextet(g[1]) /\ IsSextet(g[2])
            /\ g[3] = Pad /\ g[4] = Pad /\ g[2] % 16 = 0 THEN
        <<<<g[1] * 4 + g[2] \div 16>>>>
    ELSE <<>>

RECURSIVE base64_decode(_)
base64_decode(t) ==
    IF Len(t) = 0 THEN Ok(<<>>)
    ELSE IF Len(t) < 4 THEN Err("InvalidLength")
    ELSE
        LET g == DecodeGroup(SubSeq(t, 1, 4), Len(t) = 4) IN
        IF g = <<>> THEN Err("InvalidByte")
        ELSE
            LET r == base64_decode(SubSeq(t, 5, Len(t))) IN
            IF r.ok THEN Ok(g[1] \o r.val) ELSE r

\* A PSBT: the unsigned transaction's inputs (the outpoint spent and how far
\* the input is signed) and its output values.
InputStates == <<"unsigned", "partial", "signed", "final">>
StateCode(st) == CHOOSE i \in 1..Len(InputStates) : InputStates[i] = st

Magic == <<112, 115, 98, 116, 255>>

RECURSIVE SerializeInputs(_)
SerializeInputs(ins) ==
    IF Len(ins) = 0 THEN <<>>
    ELSE <<ins[1].id, StateCode(ins[1].st)>> \o SerializeInputs(Tail(ins))

\* consensus::encode::serialize of a PartiallySignedTransaction.
serialize(p) ==
    Magic \o <<Len(p.ins)>> \o SerializeInputs(p.ins) \o <<Len(p.outs)>> \o p.outs

\* consensus::deserialize into a PartiallySignedTransaction.
deserialize(b) ==
    IF Len(b) < Len(Magic) + 2 \/ SubSeq(b, 1, Len(Magic)) # Magic
    THEN Err("bad magic")
    ELSE
        LET h == Len(Magic)
            n == b[h + 1]
        IN
        IF Len(b) < h + 2 + 2 * n THEN Err("unexpected end")
        ELSE
            LET m == b[h + 2 + 2 * n] IN
            IF Len(b) # h + 2 + 2 * n + m THEN Err("inconsistent length")
            ELSE IF \E i \in 1..n : b[h + 2 * i + 1] \notin 1..Len(InputStates)
            THEN Err("bad input map")
            ELSE Ok([ins |-> [i \in 1..n |->
                                [id |-> b[h + 2 * i],
                                 st |-> InputStates[b[h + 2 * i + 1]]]],
                     outs |-> SubSeq(b, h + 3 + 2 * n, Len(b))])

EncodePsbtRaw(p) == serialize(p)

\* main.rs:218, the text the send verb prints.
EncodePsbt(p) == base64_encode(serialize(p))

\* main.rs:226-227, what the broadcast verb makes of its --psbt text.
DecodePsbt(t) ==
    LET b == base64_decode(t) IN
    IF b.ok THEN deserialize(b.val) ELSE b

----------------------------------------------------------------------------
(* The chain source and the wallet library *)

Utxo(id, value, conf, keychain, index) ==
    [id |-> id, value |-> value, conf |-> conf, keychain |-> keychain,
     index |-> index]

\* Outputs the chain source may hold for the wallet's scripts: confirmed and
\* unconfirmed, on the external and the internal (change) keychain.
UtxoUniverse ==
    {Utxo(1, 10, 1, "external", 0), Utxo(2, 5, 0, "external", 1),
     Utxo(3, 4, 2, "internal", 0), Utxo(4, 5, 3, "internal", 1)}

\* A chain state: the unspent outputs, and the external indices whose
\* outputs are all spent (history without an unspent output).
ChainStates ==
    [utxos : SUBSET UtxoUniverse, hist : SUBSET (0..MaxIndex)]

HasHistory(c, keychain, index) ==
    \/ \E u \in c.utxos : u.keychain = keychain /\ u.index = index
    \/ keychain = "external" /\ index \in c.hist

\* External indices the sync pass finds in use.
UsedIndices(c) == {i \in 0..MaxIndex : HasHistory(c, "external", i)}

Script(keychain, index) == [keychain |-> keychain, index |-> index]

RECURSIVE ScriptsFrom(_, _)
ScriptsFrom(keychain, i) ==
    IF i > MaxIndex THEN <<>>
    ELSE <<Script(keychain, i)>> \o ScriptsFrom(keychain, i + 1)

\* The scripts wallet.sync queries: the descriptor's, then the change
\* descriptor's when the wallet has one.
SyncScripts(has_change) ==
    ScriptsFrom("external", 0)
    \o (IF has_change THEN ScriptsFrom("internal", 0) ELSE <<>>)

\* What a completed sync of these keychains leaves in the database.
FullSet(c, has_change) ==
    {u \in c.utxos : u.keychain = "external" \/ has_change}

RECURSIVE SumValues(_)
SumValues(S) ==
    IF S = {} THEN 0
    ELSE LET u == CHOOSE x \in S : TRUE IN u.value + SumValues(S \ {u})

Confirmed(S) == {u \in S : u.conf >= 1}

get_balance_confirmed(db) == SumValues(Confirmed(db))

\* Wallet::get_balance: the sum of the unspent outputs in the database.
get_balance(db) == SumValues(db)

\* Largest value first, ties by outpoint.
Before(a, b) == a.value > b.value \/ (a.value = b.value /\ a.id < b.id)

RECURSIVE SortUtxos(_)
SortUtxos(S) ==
    IF S = {} THEN <<>>
    ELSE LET u == CHOOSE x \in S : \A y \in S \ {x} : Before(x, y)
         IN <<u>> \o SortUtxos(S \ {u})

\* Wallet::list_unspent: the unspent outputs in the database.
list_unspent(db) == db

\* Fee of a transaction with n inputs at the default fee rate.
FeeBase == 1
FeePerInput == 1
Fee(n) == FeeBase + FeePerInput * n

\* Largest change that is dropped into the fee instead of getting an output.
DustThreshold == 2

RECURSIVE SumSeq(_)
SumSeq(q) == IF Len(q) = 0 THEN 0 ELSE Head(q) + SumSeq(Tail(q))

\* Total value of a sequence of unspent outputs.
SeqSum(q) == SumSeq([i \in 1..Len(q) |-> q[i].value])

\* LargestFirstCoinSelection: take candidates in order until they cover the
\* target and the fee of the inputs taken.
RECURSIVE Accumulate(_, _, _)
Accumulate(cands, chosen, target) ==
    IF SeqSum(chosen) >= target + Fee(Len(chosen)) /\ Len(chosen) > 0
    THEN Ok(chosen)
    ELSE IF Len(cands) = 0 THEN Err("InsufficientFunds")
    ELSE Accumulate(Tail(cands), Append(chosen, Head(cands)), target)

coin_select(db, target) == Accumulate(SortUtxos(db), <<>>, target)

\* TxBuilder::finish: the unsigned PSBT and the transaction's details.
finish(db, amount) ==
    LET sel == coin_select(db, amount) IN
    IF ~sel.ok THEN sel
    ELSE
        LET chosen == sel.val
            total  == SeqSum(chosen)
            fee    == Fee(Len(chosen))
            rem    == total - amount - fee
            change == IF rem > DustThreshold THEN rem ELSE 0
        IN Ok([psbt |-> [ins |-> [i \in 1..Len(chosen) |->
                                    [id |-> chosen[i].id, st |-> "unsigned"]],
                         outs |-> IF change > 0 THEN <<amount, change>>
                                  ELSE <<amount>>],
               details |-> [fee |-> total - amount - change, sent |-> amount,
                            change |-> change, inputs |-> total]])

FinalizeInput(in) ==
    IF in.st = "signed" THEN [in EXCEPT !.st = "final"] ELSE in

\* Wallet::finalize_psbt: finalizes the inputs that carry enough signature
\* data, and reports whether every input is now final.
finalize_psbt(p) ==
    LET q == [p EXCEPT !.ins = [i \in 1..Len(p.ins) |-> FinalizeInput(p.ins[i])]]
    IN [psbt |-> q, finalized |-> \A i \in 1..Len(q.ins) : q.ins[i].st = "final"]

\* PartiallySignedTransaction::extract_tx: the transaction with whatever
\* final script data each input carries; it cannot fail.
extract_tx(p) ==
    [ins |-> [i \in 1..Len(p.ins) |->
                [id |-> p.ins[i].id, has_witness |-> p.ins[i].st = "final"]],
     outs |-> p.outs]

TxComplete(tx) == \A i \in 1..Len(tx.ins) : tx.ins[i].has_witness

----------------------------------------------------------------------------
(* Inputs of a run *)

Psbt(ins, outs) == [ins |-> ins, outs |-> outs]
In(id, st) == [id |-> id, st |-> st]

\* PSBTs a signer may hand back for broadcasting.
PsbtOf(tok) ==
    CASE tok = "psbt:signed"   -> Psbt(<<In(1, "signed")>>, <<3, 5>>)
      [] tok = "psbt:final"    -> Psbt(<<In(1, "final"), In(2, "signed")>>, <<12>>)
      [] tok = "psbt:partial"  -> Psbt(<<In(1, "signed"), In(2, "unsigned")>>, <<12>>)
      [] tok = "psbt:multisig" -> Psbt(<<In(3, "partial")>>, <<1>>)
      [] tok = "psbt:unsigned" -> Psbt(<<In(1, "unsigned")>>, <<7>>)

GoodPsbtTokens ==
    {"psbt:signed", "psbt:final", "psbt:partial", "psbt:multisig", "psbt:unsigned"}

\* The text behind a --psbt argument: the encoding of a PSBT, text that is
\* not base64, or base64 of bytes that are no PSBT.
PsbtText(tok) ==
    CASE tok \in GoodPsbtTokens -> EncodePsbt(PsbtOf(tok))
      [] tok = "psbt:notbase64" -> <<28, 7, 65, 2, 11>>
      [] tok = "psbt:notpsbt"   -> base64_encode(<<1, 2, 3, 4>>)
      [] OTHER                  -> <<65>>

PsbtTokens == GoodPsbtTokens \cup {"psbt:notbase64", "psbt:notpsbt"}

\* Every subsequence of a command line: arguments left out.
RECURSIVE SubSeqs(_)
SubSeqs(s) ==
    IF Len(s) = 0 THEN {<<>>}
    ELSE LET rest == SubSeqs(Tail(s)) IN
         rest \cup {<<Head(s)>> \o r : r \in rest}

Templates ==
    {<<"balance", d, "--change", c, "--change", "wpkh(B)">> :
        d \in {"wpkh(A)", "baddesc"}, c \in {"wpkh(B)", "baddesc"}}
    \cup {<<"receive", "wpkh(A)", "--index", i>> : i \in {"0", "1", "2", "x"}}
    \cup {<<"send", "wpkh(A)", "--change", "wpkh(B)", "--amount", a, "--dest", t>> :
        a \in {"3", "7", "12", "30", "x"}, t \in {"tb1qdest", "notaddr"}}
    \cup {<<"broadcast", "wpkh(A)", "--psbt", p>> : p \in PsbtTokens}
    \cup {<<"frobnicate", "wpkh(A)", "--change", "wpkh(B)">>}

ArgvSet == UNION {SubSeqs(t) : t \in Templates}

----------------------------------------------------------------------------
(* The run *)

NoWork ==
    [dest |-> None, info |-> None, bytes |-> None, psbt |-> None,
     is_finalized |-> None, tx |-> None, built |-> None]

Init ==
    /\ argv \in ArgvSet
    /\ chain \in ChainStates
    /\ pc = "parse_args"
    /\ mode = None
    /\ failed = None
    /\ trace = <<>>
    /\ diag = 0
    /\ exitCode = None
    /\ net = <<>>
    /\ wallet = [st |-> "none", ext_last |-> -1, int_last |-> -1]
    /\ queue = <<>>
    /\ utxos = {}
    /\ out = <<>>
    /\ work = NoWork

M == Get(mode)

HasChange(m) == m.kind \in {"balance", "send"}

\* The first step of each verb after create_wallet returned the wallet.
VerbEntry(m) ==
    CASE m.kind = "balance"   -> "get_balance"
      [] m.kind = "receive"   -> "get_address"
      [] m.kind = "send"      -> "address_from_str"
      [] m.kind = "broadcast" -> "base64_decode"

\* A step returned Err: `?` returns it from execute, dropping the wallet if
\* there is one.
FailAt(step) ==
    /\ failed' = Some(step)
    /\ pc' = "exec_err"
    /\ wallet' = IF wallet.st = "none" THEN wallet
                 ELSE [wallet EXCEPT !.st = "dropped"]

Println(k, v) == Append(out, [k |-> k, v |-> v])

\* main.rs:43-44, 60-104: main calls parse_args.
ParseArgs ==
    /\ pc = "parse_args"
    /\ trace' = Append(trace, "parse_args")
    /\ LET r == parse_args(argv) IN
       IF r.ok
       THEN /\ mode' = Some(r.val)
            /\ pc' = "client_new"
            /\ failed' = failed
       ELSE /\ failed' = Some("parse_args")
            /\ pc' = "parse_err"
            /\ mode' = mode
    /\ UNCHANGED <<argv, diag, exitCode, chain, net, wallet, queue, utxos, out, work>>

\* main.rs:45-48: parse_args failed.
MainParseErr ==
    /\ pc = "parse_err"
    /\ diag' = diag + 1
    /\ exitCode' = Some(1)
    /\ pc' = "exited"
    /\ UNCHANGED <<argv, mode, failed, trace, chain, net, wallet, queue, utxos, out, work>>

MainExecErrReturns ==
    /\ pc = "exec_err"
    /\ diag' = diag + 1
    /\ exitCode' = Some(0)
    /\ pc' = "exited"
    /\ UNCHANGED <<argv, mode, failed, trace, chain, net, wallet, queue, utxos, out, work>>

\* main.rs:53-56: execute failed.
MainExecErr ==
    /\ pc = "exec_err"
    /\ diag' = diag + 1
    /\ exitCode' = Some(1)
    /\ pc' = "exited"
    /\ UNCHANGED <<argv, mode, failed, trace, chain, net, wallet, queue, utxos, out, work>>

\* main.rs:51-52, 58: execute returned Ok(()) and main returns.
MainOk ==
    /\ pc = "exec_ok"
    /\ exitCode' = Some(0)
    /\ pc' = "exited"
    /\ UNCHANGED <<argv, mode, failed, trace, diag, chain, net, wallet, queue, utxos, out, work>>

\* main.rs:112: Client::new connects to the Electrum server.
ClientNew ==
    /\ pc = "client_new"
    /\ trace' = Append(trace, "client_new")
    /\ net' = Append(net, "connect")
    /\ \E ok \in BOOLEAN :
         IF ok THEN pc' = "wallet_new" /\ UNCHANGED <<failed, wallet>>
         ELSE FailAt("client_new")
    /\ UNCHANGED <<argv, mode, diag, exitCode, chain, queue, utxos, out, work>>

\* main.rs:115-128: Wallet::new parses the descriptors; then "Syncing...".
WalletNew ==
    /\ pc = "wallet_new"
    /\ trace' = Append(trace, "wallet_new")
    /\ IF /\ ValidDescriptor(M.descriptor)
          /\ HasChange(M) => ValidDescriptor(M.change_descriptor)
       THEN /\ wallet' = [wallet EXCEPT !.st = "created"]
            /\ queue' = SyncScripts(HasChange(M))
            /\ out' = Println("syncing", 0)
            /\ pc' = "sync"
            /\ failed' = failed
       ELSE /\ FailAt("wallet_new")
            /\ UNCHANGED <<queue, out>>
    /\ UNCHANGED <<argv, mode, diag, exitCode, chain, net, utxos, work>>

\* What one answered script query adds to the wallet.
Found(s) == {u \in chain.utxos : u.keychain = s.keychain /\ u.index = s.index}

Max(a, b) == IF a > b THEN a ELSE b

Synced(w, s) ==
    IF ~HasHistory(chain, s.keychain, s.index) THEN w
    ELSE IF s.keychain = "external"
    THEN [w EXCEPT !.ext_last = Max(w.ext_last, s.index)]
    ELSE [w EXCEPT !.int_last = Max(w.int_last, s.index)]

SyncQueryIgnoresError ==
    /\ pc = "sync"
    /\ queue # <<>>
    /\ net' = Append(net, "query")
    /\ queue' = Tail(queue)
    /\ \E ok \in BOOLEAN :
         LET s == Head(queue)
             w == IF ok THEN Synced(wallet, s) ELSE wallet
         IN /\ utxos' = IF ok THEN utxos \cup Found(s) ELSE utxos
            /\ IF Tail(queue) = <<>>
               THEN /\ wallet' = [w EXCEPT !.st = "synced"]
                    /\ trace' = Append(trace, "sync")
                    /\ pc' = VerbEntry(M)
               ELSE /\ wallet' = w
                    /\ UNCHANGED <<trace, pc>>
    /\ UNCHANGED <<argv, mode, failed, diag, exitCode, chain, out, work>>

\* main.rs:132-134: wallet.sync, one script query at a time; the wallet is
\* returned once every query was answered.
SyncQuery ==
    /\ pc = "sync"
    /\ queue # <<>>
    /\ net' = Append(net, "query")
    /\ \E ok \in BOOLEAN :
         IF ok
         THEN LET s == Head(queue) IN
              /\ utxos' = utxos \cup Found(s)
              /\ queue' = Tail(queue)
              /\ failed' = failed
              /\ IF Tail(queue) = <<>>
                 THEN /\ wallet' = [Synced(wallet, s) EXCEPT !.st = "synced"]
                      /\ trace' = Append(trace, "sync")
                      /\ pc' = VerbEntry(M)
                 ELSE /\ wallet' = Synced(wallet, s)
                      /\ UNCHANGED <<trace, pc>>
         ELSE /\ FailAt("sync")
              /\ trace' = Append(trace, "sync")
              /\ UNCHANGED <<utxos, queue>>
    /\ UNCHANGED <<argv, mode, diag, exitCode, chain, out, work>>

(* balance *)

\* main.rs:146-149: the balance printed is wallet.get_balance().
GetBalance ==
    /\ pc = "get_balance"
    /\ trace' = Append(trace, "get_balance")
    /\ \E ok \in BOOLEAN :
         IF ok
         THEN /\ out' = Println("balance", get_balance(utxos))
              /\ pc' = "list_unspent"
              /\ UNCHANGED <<failed, wallet>>
         ELSE /\ FailAt("get_balance")
              /\ out' = out
    /\ UNCHANGED <<argv, mode, diag, exitCode, chain, net, queue, utxos, work>>

\* main.rs:151-154: the Result of list_unspent is printed as it is, Ok or
\* Err, and the verb returns Ok(()).
ListUnspent ==
    /\ pc = "list_unspent"
    /\ trace' = Append(trace, "list_unspent")
    /\ \E ok \in BOOLEAN :
         out' = Println("unspent", IF ok THEN Ok(list_unspent(utxos))
                                   ELSE Err("database"))
    /\ pc' = "exec_ok"
    /\ UNCHANGED <<argv, mode, failed, diag, exitCode, chain, net, wallet, queue,
                   utxos, work>>

(* receive *)

\* AddressIndex::Peek(index): the address at that index; the wallet's
\* derivation index is left alone.
get_address_peek(w, desc, index) ==
    [info |-> [index |-> index, address |-> derive(desc, index)], wallet |-> w]

\* AddressIndex::New: the address after the last derived index, which
\* becomes the wallet's last index.
get_address_new(w, desc, index) ==
    [info |-> [index |-> w.ext_last + 1, address |-> derive(desc, w.ext_last + 1)],
     wallet |-> [w EXCEPT !.ext_last = w.ext_last + 1]]

GetAddressNew ==
    /\ pc = "get_address"
    /\ trace' = Append(trace, "get_address")
    /\ \E ok \in BOOLEAN :
         IF ok
         THEN LET r == get_address_new(wallet, M.descriptor, M.index) IN
              /\ work' = [work EXCEPT !.info = Some(r.info)]
              /\ wallet' = r.wallet
              /\ pc' = "descriptor_from_str"
              /\ failed' = failed
         ELSE /\ FailAt("get_address")
              /\ work' = work
    /\ UNCHANGED <<argv, mode, diag, exitCode, chain, net, queue, utxos, out>>

\* main.rs:157-163: wallet.get_address(AddressIndex::Peek(index)).
GetAddress ==
    /\ pc = "get_address"
    /\ trace' = Append(trace, "get_address")
    /\ \E ok \in BOOLEAN :
         IF ok
         THEN LET r == get_address_peek(wallet, M.descriptor, M.index) IN
              /\ work' = [work EXCEPT !.info = Some(r.info)]
              /\ wallet' = r.wallet
              /\ pc' = "descriptor_from_str"
              /\ failed' = failed
         ELSE /\ FailAt("get_address")
              /\ work' = work
    /\ UNCHANGED <<argv, mode, diag, exitCode, chain, net, queue, utxos, out>>

\* main.rs:165-182: the descriptor is parsed again (as Wallet::new parsed it
\* before), derived at the index of the AddressInfo, and descriptor, index
\* and address are printed.
DescriptorFromStr ==
    /\ pc = "descriptor_from_str"
    /\ trace' = Append(trace, "descriptor_from_str")
    /\ IF ValidDescriptor(M.descriptor)
       THEN LET info == Get(work.info) IN
            /\ out' = out \o <<[k |-> "underived", v |-> M.descriptor],
                               [k |-> "derived", v |-> derive(M.descriptor, info.index)],
                               [k |-> "index", v |-> info.index],
                               [k |-> "address", v |-> info.address]>>
            /\ pc' = "exec_ok"
            /\ UNCHANGED <<failed, wallet>>
       ELSE /\ FailAt("descriptor_from_str")
            /\ out' = out
    /\ UNCHANGED <<argv, mode, diag, exitCode, chain, net, queue, utxos, work>>

(* send *)

\* main.rs:192-194: Address::from_str(destination)?.script_pubkey().
AddressFromStr ==
    /\ pc = "address_from_str"
    /\ trace' = Append(trace, "address_from_str")
    /\ IF ValidAddress(M.destination)
       THEN /\ work' = [work EXCEPT !.dest = Some(M.destination)]
            /\ pc' = "finish"
            /\ UNCHANGED <<failed, wallet>>
       ELSE /\ FailAt("address_from_str")
            /\ work' = work
    /\ UNCHANGED <<argv, mode, diag, exitCode, chain, net, queue, utxos, out>>

\* The wallet after a transaction was built: a change output takes the next
\* index of the change keychain.
AfterBuild(w, details) ==
    IF details.change > 0 THEN [w EXCEPT !.int_last = w.int_last + 1] ELSE w

Emit(r) ==
    /\ work' = [work EXCEPT !.built = Some(r)]
    /\ out' = out \o <<[k |-> "details", v |-> r.details],
                       [k |-> "psbt", v |-> EncodePsbt(r.psbt)]>>
    /\ wallet' = AfterBuild(wallet, r.details)
    /\ pc' = "exec_ok"
    /\ failed' = failed

\* What a builder that does not check the selection would hand out: every
\* output of the wallet as input, the recipient as only output.
Unchecked(db, amount) ==
    LET all == SortUtxos(db) IN
    [psbt |-> [ins |-> [i \in 1..Len(all) |-> [id |-> all[i].id, st |-> "unsigned"]],
               outs |-> <<amount>>],
     details |-> [fee |-> Fee(Len(all)), sent |-> amount, change |-> 0,
                  inputs |-> SeqSum(all)]]

FinishUnchecked ==
    /\ pc = "finish"
    /\ trace' = Append(trace, "finish")
    /\ LET r == finish(utxos, M.amount) IN
       IF r.ok THEN Emit(r.val) ELSE Emit(Unchecked(utxos, M.amount))
    /\ UNCHANGED <<argv, mode, diag, exitCode, chain, net, queue, utxos>>

FinishSpends ==
    /\ pc = "finish"
    /\ trace' = Append(trace, "finish")
    /\ LET r == finish(utxos, M.amount) IN
       IF r.ok
       THEN /\ Emit(r.val)
            /\ utxos' = {u \in utxos :
                           \A i \in 1..Len(r.val.psbt.ins) : r.val.psbt.ins[i].id # u.id}
       ELSE /\ FailAt("finish")
            /\ UNCHANGED <<work, out, utxos>>
    /\ UNCHANGED <<argv, mode, diag, exitCode, chain, net, queue>>

\* main.rs:200-220: the builder (largest-first selection, RBF, one
\* recipient) is finished; details and the base64 PSBT are printed.
Finish ==
    /\ pc = "finish"
    /\ trace' = Append(trace, "finish")
    /\ LET r == finish(utxos, M.amount) IN
       IF r.ok
       THEN Emit(r.val)
       ELSE /\ FailAt("finish")
            /\ UNCHANGED <<work, out>>
    /\ UNCHANGED <<argv, mode, diag, exitCode, chain, net, queue, utxos>>

(* broadcast *)

\* main.rs:226: base64::decode(&psbt)?.
Base64Decode ==
    /\ pc = "base64_decode"
    /\ trace' = Append(trace, "base64_decode")
    /\ LET r == base64_decode(PsbtText(M.psbt)) IN
       IF r.ok
       THEN /\ work' = [work EXCEPT !.bytes = Some(r.val)]
            /\ pc' = "deserialize"
            /\ UNCHANGED <<failed, wallet>>
       ELSE /\ FailAt("base64_decode")
            /\ work' = work
    /\ UNCHANGED <<argv, mode, diag, exitCode, chain, net, queue, utxos, out>>

\* main.rs:227: deserialize(&psbt)?.
Deserialize ==
    /\ pc = "deserialize"
    /\ trace' = Append(trace, "deserialize")
    /\ LET r == deserialize(Get(work.bytes)) IN
       IF r.ok
       THEN /\ work' = [work EXCEPT !.psbt = Some(r.val)]
            /\ pc' = "finalize_psbt"
            /\ UNCHANGED <<failed, wallet>>
       ELSE /\ FailAt("deserialize")
            /\ work' = work
    /\ UNCHANGED <<argv, mode, diag, exitCode, chain, net, queue, utxos, out>>

\* main.rs:233-236: wallet.finalize_psbt(&mut psbt, sign_options)?; the bool
\* it returns is bound to _psbt_is_finalized and not looked at.
FinalizePsbt ==
    /\ pc = "finalize_psbt"
    /\ trace' = Append(trace, "finalize_psbt")
    /\ \E ok \in BOOLEAN :
         IF ok
         THEN LET r == finalize_psbt(Get(work.psbt)) IN
              /\ work' = [work EXCEPT !.psbt = Some(r.psbt),
                                      !.is_finalized = Some(r.finalized)]
              /\ pc' = "extract_tx"
              /\ UNCHANGED <<failed, wallet>>
         ELSE /\ FailAt("finalize_psbt")
              /\ work' = work
    /\ UNCHANGED <<argv, mode, diag, exitCode, chain, net, queue, utxos, out>>

\* main.rs:238-239: psbt.extract_tx().
ExtractTx ==
    /\ pc = "extract_tx"
    /\ trace' = Append(trace, "extract_tx")
    /\ work' = [work EXCEPT !.tx = Some(extract_tx(Get(work.psbt)))]
    /\ pc' = "broadcast"
    /\ UNCHANGED <<argv, mode, failed, diag, exitCode, chain, net, wallet, queue,
                   utxos, out>>

\* main.rs:241-246: wallet.broadcast(tx)?; the chain source takes only a
\* transaction whose inputs all carry their final scripts.
BroadcastTx ==
    /\ pc = "broadcast"
    /\ trace' = Append(trace, "broadcast")
    /\ net' = Append(net, "broadcast")
    /\ \E accept \in BOOLEAN :
         IF accept /\ TxComplete(Get(work.tx))
         THEN /\ out' = Println("txid", Get(work.tx))
              /\ pc' = "exec_ok"
              /\ UNCHANGED <<failed, wallet>>
         ELSE /\ FailAt("broadcast")
              /\ out' = out
    /\ UNCHANGED <<argv, mode, diag, exitCode, chain, queue, utxos, work>>

Next ==
    \/ ParseArgs \/ MainParseErr \/ MainExecErr \/ MainOk
    \/ ClientNew \/ WalletNew \/ SyncQuery
    \/ GetBalance \/ ListUnspent
    \/ GetAddress \/ DescriptorFromStr
    \/ AddressFromStr \/ Finish
    \/ Base64Decode \/ Deserialize \/ FinalizePsbt \/ ExtractTx \/ BroadcastTx

Spec == Init /\ [][Next]_vars

----------------------------------------------------------------------------
(* Properties *)

Range(q) == {q[i] : i \in 1..Len(q)}
InTrace(step) == step \in Range(trace)
\* What the run printed under label k.
Printed(k) == {out[i].v : i \in {j \in 1..Len(out) : out[j].k = k}}
Last(q) == q[Len(q)]
NoDup(q) == \A i, j \in 1..Len(q) : q[i] = q[j] => i = j
IsPrefix(a, b) == Len(a) <= Len(b) /\ SubSeq(b, 1, Len(a)) = a

\* Steps that run on, or read, the wallet that create_wallet returned.
VerbSteps ==
    {"get_balance", "list_unspent", "get_address", "descriptor_from_str",
     "address_from_str", "finish", "base64_decode", "deserialize",
     "finalize_psbt", "extract_tx", "broadcast"}

\* Steps that read wallet state.
ReadSteps ==
    {"get_balance", "list_unspent", "get_address", "finish", "finalize_psbt",
     "broadcast"}

\* The steps of a whole run of each verb, in order.
Pipeline(kind) ==
    <<"parse_args", "client_new", "wallet_new", "sync">> \o
    CASE kind = "balance"   -> <<"get_balance", "list_unspent">>
      [] kind = "receive"   -> <<"get_address", "descriptor_from_str">>
      [] kind = "send"      -> <<"address_from_str", "finish">>
      [] kind = "broadcast" -> <<"base64_decode", "deserialize", "finalize_psbt",
                                 "extract_tx", "broadcast">>

\* C1: in broadcast mode the transaction is extracted and submitted to the
\* chain source only if finalize_psbt reported every input finalized; with an
\* input left unfinalized there is no extraction and no broadcast call.
C1_ExtractOnlyIfFinalized ==
    (InTrace("extract_tx") \/ "broadcast" \in Range(net))
        => work.is_finalized = Some(TRUE)

\* C2: a broadcast run whose --psbt text is not valid base64, or not a valid
\* binary PSBT, makes no call to the chain source (connect, query, broadcast)
\* and ends with a decode error and a non-zero exit.
C2_MalformedPsbtNoNetwork ==
    (IsSome(mode) /\ M.kind = "broadcast" /\ ~DecodePsbt(PsbtText(M.psbt)).ok)
        => /\ net = <<>>
           /\ IsSome(exitCode) =>
                /\ exitCode = Some(1)
                /\ failed \in {Some("base64_decode"), Some("deserialize")}

\* C3: when the sync pass fails (the connection or any script query),
\* create_wallet returns the error and no wallet: no verb step runs, and a
\* verb step only ever runs on the UTXO set of a completed sync.
C3_FailedSyncYieldsNoWallet ==
    /\ failed \in {Some("client_new"), Some("sync")} =>
         /\ wallet.st = (IF failed = Some("sync") THEN "dropped" ELSE "none")
         /\ Range(trace) \cap VerbSteps = {}
         /\ \A i \in 1..Len(out) : out[i].k = "syncing"
    /\ Range(trace) \cap VerbSteps # {} =>
         /\ utxos = FullSet(chain, HasChange(M))
         /\ queue = <<>>

\* C3 witness: a query failed after earlier queries had already put outputs
\* into the database, and the run has ended.
C3_Witness ==
    /\ failed = Some("sync")
    /\ pc = "exited"
    /\ utxos # {}
    /\ utxos # FullSet(chain, HasChange(M))

\* The steps C4 names: argument parsing, descriptor parsing, sync (with the
\* connection), address parsing, transaction build, PSBT decode, finalize,
\* broadcast; and the two wallet reads whose Result is propagated.
\* C4: a failure of a step stops the run: it is the last step executed, no
\* step runs twice, main prints one diagnostic line and exits non-zero; the
\* exit status is zero only if every step of the verb's pipeline ran and
\* none failed.
C4_FailureStopsRun ==
    /\ diag <= 1
    /\ NoDup(trace)
    /\ IsSome(mode) => IsPrefix(trace, Pipeline(M.kind))
    /\ IsSome(failed) =>
         /\ Last(trace) = Get(failed)
         /\ pc \in {"parse_err", "exec_err", "exited"}
    /\ IsSome(exitCode) =>
         IF IsSome(failed)
         THEN exitCode = Some(1) /\ diag = 1
         ELSE /\ exitCode = Some(0)
              /\ diag = 0
              /\ trace = Pipeline(M.kind)

\* C4 witness: a step in the middle of a pipeline failed and the process
\* has exited.
C4_Witness ==
    /\ exitCode = Some(1)
    /\ failed = Some("finish")
    /\ diag = 1

RequiredFlags(verb) ==
    CASE verb = "balance"   -> {"--change"}
      [] verb = "receive"   -> {"--index"}
      [] verb = "send"      -> {"--change", "--amount", "--dest"}
      [] verb = "broadcast" -> {"--psbt"}
      [] OTHER              -> {}

\* The free-standing arguments of a command line, read left to right: a
\* flag takes the argument after it as its value, anything else is
\* free-standing.
RECURSIVE Positionals(_)
Positionals(args) ==
    IF Len(args) = 0 THEN <<>>
    ELSE IF StartsWithDash(args[1]) THEN Positionals(SubSeq(args, 3, Len(args)))
    ELSE <<args[1]>> \o Positionals(Tail(args))

\* A command line lacks the verb, has an unknown verb, has no free-standing
\* argument after the verb to be the descriptor, or lacks a flag its verb
\* requires.
ArgsIncomplete(args) ==
    \/ Len(args) = 0
    \/ StartsWithDash(args[1])
    \/ args[1] \notin Verbs
    \/ Len(Positionals(Tail(args))) = 0
    \/ \E f \in RequiredFlags(args[1]) : index_of(args, f) = 0

\* C5: if the verb, the descriptor or a flag the verb requires is missing,
\* or the verb is unknown, parse_args returns an error, execute is never
\* called (no wallet, no network call) and the process exits non-zero.
C5_IncompleteArgsRejected ==
    ArgsIncomplete(argv) =>
        /\ mode = None
        /\ net = <<>>
        /\ wallet.st = "none"
        /\ pc # "parse_args" => failed = Some("parse_args")
        /\ IsSome(exitCode) => exitCode = Some(1)

ValueOfInput(id) == (CHOOSE u \in UtxoUniverse : u.id = id).value

InputTotal(p) == SumSeq([i \in 1..Len(p.ins) |-> ValueOfInput(p.ins[i].id)])

\* Some non-empty subset of the outputs covers the amount and its own fee.
CanCover(db, amount) ==
    \E S \in SUBSET db : S # {} /\ SumValues(S) >= amount + Fee(Cardinality(S))

\* C6: every PSBT a send run prints spends outputs of the wallet whose total
\* value is at least the output values plus the fee of its inputs; a send
\* whose outputs cannot cover amount plus fee prints no PSBT.
C6_InputsCoverOutputsAndFee ==
    /\ \A o \in Printed("psbt") :
         LET p == DecodePsbt(o).val IN
         /\ \A i \in 1..Len(p.ins) : \E u \in utxos : u.id = p.ins[i].id
         /\ NoDup(p.ins)
         /\ p.outs[1] = M.amount
         /\ InputTotal(p) >= SumSeq(p.outs) + Fee(Len(p.ins))
    /\ (InTrace("finish") /\ ~CanCover(utxos, M.amount)) =>
         /\ Printed("psbt") = {}
         /\ failed = Some("finish")

\* C6 witness: a send printed a PSBT that needed two inputs.
C6_Witness ==
    \E o \in Printed("psbt") : Len(DecodePsbt(o).val.ins) = 2

\* C7: the text send prints for a PSBT (base64 of the binary serialization)
\* decodes, with broadcast's decoding (base64 decode, then deserialize), to
\* that PSBT; and a PSBT in any signing state that reaches broadcast in that
\* encoding is decoded to itself.
C7_PsbtRoundTrip ==
    /\ \A o \in Printed("psbt") : DecodePsbt(o) = Ok(Get(work.built).psbt)
    /\ (IsSome(mode) /\ M.kind = "broadcast" /\ M.psbt \in GoodPsbtTokens) =>
         /\ failed \notin {Some("base64_decode"), Some("deserialize")}
         /\ pc = "finalize_psbt" => work.psbt = Some(PsbtOf(M.psbt))

\* C7 witness: send printed a PSBT with a change output, and it is that text
\* that decodes.
C7_Witness ==
    \E o \in Printed("psbt") :
        /\ Len(Get(work.built).psbt.outs) = 2
        /\ DecodePsbt(o).ok

\* C8: the receive verb never returns an address at an index that the
\* preceding sync found in use.
C8_ReceiveNeverUsedIndex ==
    \A o \in Printed("index") : o \notin UsedIndices(chain)

MaxOf(S) == IF S = {} THEN -1 ELSE CHOOSE m \in S : \A x \in S : x <= m

\* C8 amended: the receive verb returns the address at exactly the index
\* given by --index, used or not, and leaves the wallet's derivation index
\* where the sync put it.
C8_ReceivePeeksRequestedIndex ==
    /\ IsSome(work.info) =>
         /\ Get(work.info).index = M.index
         /\ Get(work.info).address = derive(M.descriptor, M.index)
         /\ wallet.ext_last = MaxOf(UsedIndices(chain))
    /\ \A o \in Printed("index") : o = M.index
    /\ \A o \in Printed("address") : o = derive(M.descriptor, M.index)

\* C8 witness: receive printed an index that the sync had found in use.
C8_Witness ==
    \E o \in Printed("index") : o \in UsedIndices(chain)

\* C9: the balance printed is the sum of value over the synced UTXOs with at
\* least one confirmation.
C9_BalanceIsConfirmedSum ==
    \A o \in Printed("balance") : o = SumValues(Confirmed(FullSet(chain, TRUE)))

\* C9 amended: the balance printed is the sum of value over all UTXOs that
\* the sync over the primary and change descriptors produced, unconfirmed
\* ones included.
C9_BalanceIsSumOfAllUnspent ==
    \A o \in Printed("balance") : o = SumValues(FullSet(chain, TRUE))

\* C9 witness: a balance was printed for a wallet holding an unconfirmed
\* output beside confirmed ones.
C9_Witness ==
    \E o \in Printed("balance") :
        /\ Confirmed(utxos) # {}
        /\ utxos \ Confirmed(utxos) # {}
        /\ o > SumValues(Confirmed(utxos))

CountIn(q, x) == Cardinality({i \in 1..Len(q) : q[i] = x})

\* C10: a run syncs at most once, every read of wallet state comes after the
\* one sync completed, a verb that ran to its end synced exactly once, and
\* the UTXO set changes in no step other than the sync.
C10_SyncOnceThenReadOnly ==
    /\ [](/\ CountIn(trace, "sync") <= 1
          /\ \A i \in 1..Len(trace) :
               trace[i] \in ReadSteps =>
                 /\ \E j \in 1..(i - 1) : trace[j] = "sync"
                 /\ failed # Some("sync")
                 /\ utxos = FullSet(chain, HasChange(M))
          /\ exitCode = Some(0) => CountIn(trace, "sync") = 1)
    /\ [][pc # "sync" => utxos' = utxos]_vars

\* C10 witness: a send ran to its end on a wallet the sync had filled.
C10_Witness ==
    /\ exitCode = Some(0)
    /\ M.kind = "send"
    /\ utxos # {}
    /\ CountIn(trace, "sync") = 1

====
